---- MODULE Spec2Model ----
(***************************************************************************)
(* Model of the call conversation orchestrator of AsisteME-YA:             *)
(*   src/routes/voice.js      the /webhook and /process-response handlers  *)
(*                            and the activeConversations map              *)
(*   src/unnamed/part_000     processConversation / analyzeForActions      *)
(*   src/services/tts.js      generateSpeech                               *)
(*   src/utils/dashboard.js   getDashboardData / makeReservation           *)
(*   src/config/phone.js      parseIncomingCall / generateVoiceResponse,   *)
(*                            and (from line 690) transcribeAudio          *)
(*                                                                         *)
(* Spec and SpecSeq are the orchestrator under overlapping and under       *)
(* one-at-a-time deliveries, SpecAnon adds events without a call           *)
(* identifier, SpecAnswered and SpecTimeouts add progress, and             *)
(* SpecExtractor, SpecAdapter and SpecReservation apply the extractor, the *)
(* adapter and makeReservation on their own.                               *)
(*                                                                         *)
(* Every handler is an async function: it runs atomically between two      *)
(* awaits, and other handlers run while it is suspended at an await.  One  *)
(* action of the model is one such atomic segment.  A session is a         *)
(* JavaScript object: the map holds a reference to it and so does the      *)
(* local variable `conversation` of every handler that looked it up, so    *)
(* the objects live in a heap and the map and the handlers hold object ids.*)
(*                                                                         *)
(* Texts are sequences of word tokens; "adios" stands for the source's     *)
(* 'adiós' and "[ACCION:RESERVA]" for '[ACCIÓN:RESERVA]'.  The timestamp   *)
(* field of a turn is written but never read by the code and is left out.  *)
(***************************************************************************)
EXTENDS Naturals, Sequences, FiniteSets, TLC

(***************************************************************************)
(* Bounds of the model.                                                    *)
(***************************************************************************)
\* handlers that can be suspended at an await at the same time
MaxInFlight == 2
\* inbound events delivered in one behaviour
MaxReq == 3
\* values of the wall clock (Date) are 0..MaxClock
MaxClock == 1

\* call identifiers the telephony layer sends
CallIds == {"c1", "c2"}
\* what new Date() and Date.now() can return
Times == 0..MaxClock
\* Date.now().toString(): the identifier given to a call that came without one
DateNowString(now) == ToString(now)
SynthIds == {DateNowString(now) : now \in Times}
\* every key the map can hold
Keys == CallIds \cup SynthIds
Handlers == 1..MaxInFlight
ObjIds == 1..(Cardinality(Keys) + MaxInFlight)
NoObj == 0

(***************************************************************************)
(* Texts.                                                                  *)
(***************************************************************************)
welcomeMessage == <<"Hola", "soy", "tu", "asistente">>
retryMessage == <<"Lo", "siento", "repetir">>
errorMessage == <<"Lo", "siento", "error">>
fallbackMessage == <<"Lo", "siento", "dificultades">>
ReservaMarker == "[ACCION:RESERVA]"

\* what the speech-to-text service can transcribe a recording as
Transcripts == { <<>>, <<" ">>, <<"hola">>, <<"adios">> }
\* what the reply-generation gateway can return (already trimmed)
Completions == { <<"vale">>, <<"ADIOS">>, <<"Hasta", "luego">>,
                 <<"vale", ReservaMarker>>, <<"adios", ReservaMarker>>, <<>>,
                 <<"consultar", "disponibilidad">> }

\* String.prototype.toLowerCase, token by token
LowerTok(t) ==
  CASE t = "ADIOS" -> "adios"
    [] t = "Hasta" -> "hasta"
    [] t = "Hola" -> "hola"
    [] t = "Lo" -> "lo"
    [] t = "Soy" -> "soy"
    [] t = "Manana" -> "manana"
    [] t = "Maria" -> "maria"
    [] t = "Luis" -> "luis"
    [] t = "Consultar" -> "consultar"
    [] OTHER -> t

toLowerCase(s) == [i \in 1..Len(s) |-> LowerTok(s[i])]

\* String.prototype.includes: pat occurs contiguously in s
includes(s, pat) ==
  \E i \in 1..(Len(s) + 1) :
     /\ i + Len(pat) - 1 <= Len(s)
     /\ \A j \in 1..Len(pat) : s[i + j - 1] = pat[j]

\* String.prototype.trim: strips leading and trailing whitespace tokens
RECURSIVE trim(_)
trim(s) ==
  IF s = <<>> THEN s
  ELSE IF Head(s) = " " THEN trim(Tail(s))
  ELSE IF s[Len(s)] = " " THEN trim(SubSeq(s, 1, Len(s) - 1))
  ELSE s

\* a variant that forgets the test of the empty string
IsEmptyText_BlankOnly(s) == s # <<>> /\ trim(s) = <<>>

\* !userText || userText.trim() === ''
IsEmptyText(s) == s = <<>> \/ trim(s) = <<>>

\* the negation of shouldContinue
SaysFarewell(message) ==
  \/ includes(toLowerCase(message), <<"adios">>)
  \/ includes(toLowerCase(message), <<"hasta", "luego">>)

\* a variant that also ends the call on a farewell of the caller
shouldContinue_AlsoCaller(message, userText) ==
  ~SaysFarewell(message) /\ ~SaysFarewell(userText)

shouldContinue(message, userText) == ~SaysFarewell(message)

(***************************************************************************)
(* Action extraction (src/unnamed/part_000, services/llm.js).  A regular   *)
(* expression is matched on the token sequence as JavaScript matches it on *)
(* the characters: the leftmost position where it matches wins, keywords   *)
(* are compared case-insensitively (flag i) and a capture is the text as   *)
(* it was written.  The patterns are not anchored, so the literal "a" of   *)
(* 'a las' and 'a nombre de' also matches the last letter of a word.       *)
(***************************************************************************)
NoAction == [type |-> "null"]

\* tokens made of digits, with the number parseInt reads
DigitTokens == {"0", "4", "9", "21"}

parseInt(t) ==
  CASE t = "0" -> 0
    [] t = "4" -> 4
    [] t = "9" -> 9
    [] t = "21" -> 21

\* tokens that \w+ matches from their first character on
WordTokens ==
  {"Maria", "Luis", "de", "la", "las", "noche", "mesa", "para", "a",
   "hola", "adios", "manana", "Manana", "hoy", "pasado", "personas",
   "gente", "soy", "Soy", "me", "llamo", "nombre"} \cup DigitTokens

\* tokens whose last letter is an a
EndsWithA(t) == LowerTok(t) \in {"a", "para", "mesa", "manana", "la", "maria", "hola"}

\* (\d{1,2}):?(\d{0,2}) on the token that follows the keyword
TimeTokens == {"9", "21", "9:30", "21:30", "4", "0"}

TimeParts(t) ==
  CASE t = "9:30" -> <<"9", "30">>
    [] t = "21:30" -> <<"21", "30">>
    [] OTHER -> <<t, "">>

\* \d{1,2}\/\d{1,2}
DateTokens == {"15/03"}

\* the keyword tokens kw occur at position i of s (flag i)
KeywordAt(s, i, kw) ==
  /\ i + Len(kw) - 1 <= Len(s)
  /\ \A j \in 1..Len(kw) : LowerTok(s[i + j - 1]) = kw[j]

\* where String.match matches: the least of the positions where the
\* pattern matches, or 0 when there is none
FirstMatch(positions) ==
  IF positions = {} THEN 0
  ELSE CHOOSE i \in positions : \A k \in positions : i <= k

\* /(?:me llamo|soy|mi nombre es|a nombre de)\s+(\w+)/i : position of (\w+)
NameCaptureAt(s, i) ==
  /\ i <= Len(s)
  /\ s[i] \in WordTokens
  /\ \/ i > 2 /\ KeywordAt(s, i - 2, <<"me", "llamo">>)
     \/ i > 1 /\ KeywordAt(s, i - 1, <<"soy">>)
     \/ i > 3 /\ KeywordAt(s, i - 3, <<"mi", "nombre", "es">>)
     \/ i > 3 /\ EndsWithA(s[i - 3]) /\ KeywordAt(s, i - 2, <<"nombre", "de">>)

\* /(\d+)\s*(?:personas?|comensales?|gente)/i : position of (\d+)
PeopleCaptureAt(s, i) ==
  /\ i + 1 <= Len(s)
  /\ s[i] \in DigitTokens
  /\ LowerTok(s[i + 1]) \in {"persona", "personas", "comensal", "comensales", "gente"}

\* /(?:a las?|para las?)\s*(\d{1,2}):?(\d{0,2})/i : position of the hour
TimeCaptureAt(s, i) ==
  /\ i > 2
  /\ i <= Len(s)
  /\ s[i] \in TimeTokens
  /\ EndsWithA(s[i - 2])
  /\ LowerTok(s[i - 1]) \in {"la", "las"}

\* /(hoy|manana|pasado manana|\d{1,2}\/\d{1,2})/i : position of the capture
DateCaptureAt(s, i) ==
  \/ LowerTok(s[i]) \in {"hoy", "manana"}
  \/ KeywordAt(s, i, <<"pasado", "manana">>)
  \/ s[i] \in DateTokens

\* the text of the date capture that starts at position i
DateCapture(s, i) ==
  IF LowerTok(s[i]) = "pasado" THEN s[i] \o " " \o s[i + 1] ELSE s[i]

\* messages.filter(m => m.role === 'user').map(m => m.content).join(' ')
RECURSIVE joinUserMessages(_)
joinUserMessages(messages) ==
  IF messages = <<>> THEN <<>>
  ELSE IF Head(messages).role = "user"
    THEN Head(messages).content \o joinUserMessages(Tail(messages))
    ELSE joinUserMessages(Tail(messages))

\* String.prototype.substring(0, n), lengths counted in tokens
substring(s, n) == SubSeq(s, 1, IF Len(s) < n THEN Len(s) ELSE n)

\* the length the notes are cut to
NotesLength == 100

\* `${timeMatch[1]}:${timeMatch[2] || '00'}`
TimeText(t) ==
  TimeParts(t)[1] \o ":" \o (IF TimeParts(t)[2] = "" THEN "00" ELSE TimeParts(t)[2])

\* a variant that gives up on every field as soon as one pattern fails
extractReservationData_AllOrNothing(messages, responseText) ==
  LET userMessages == joinUserMessages(messages)
      nameAt == FirstMatch({i \in 1..Len(userMessages) : NameCaptureAt(userMessages, i)})
      peopleAt == FirstMatch({i \in 1..Len(userMessages) : PeopleCaptureAt(userMessages, i)})
      timeAt == FirstMatch({i \in 1..Len(userMessages) : TimeCaptureAt(userMessages, i)})
      dateAt == FirstMatch({i \in 1..Len(userMessages) : DateCaptureAt(userMessages, i)})
      all == nameAt # 0 /\ peopleAt # 0 /\ timeAt # 0 /\ dateAt # 0
  IN [name |-> IF all THEN userMessages[nameAt] ELSE "Cliente",
      people |-> IF all THEN parseInt(userMessages[peopleAt]) ELSE 2,
      date |-> IF all THEN DateCapture(userMessages, dateAt) ELSE "hoy",
      time |-> IF all THEN TimeText(userMessages[timeAt]) ELSE "20:00",
      phone |-> "No proporcionado",
      notes |-> substring(userMessages, NotesLength)]

\* lines 172-216; nothing in the try block throws, its catch is never entered
extractReservationData(messages, responseText) ==
  LET userMessages == joinUserMessages(messages)
      nameAt == FirstMatch({i \in 1..Len(userMessages) : NameCaptureAt(userMessages, i)})
      peopleAt == FirstMatch({i \in 1..Len(userMessages) : PeopleCaptureAt(userMessages, i)})
      timeAt == FirstMatch({i \in 1..Len(userMessages) : TimeCaptureAt(userMessages, i)})
      dateAt == FirstMatch({i \in 1..Len(userMessages) : DateCaptureAt(userMessages, i)})
  IN [name |-> IF nameAt # 0 THEN userMessages[nameAt] ELSE "Cliente",
      people |-> IF peopleAt # 0 THEN parseInt(userMessages[peopleAt]) ELSE 2,
      date |-> IF dateAt # 0 THEN DateCapture(userMessages, dateAt) ELSE "hoy",
      time |-> IF timeAt # 0 THEN TimeText(userMessages[timeAt]) ELSE "20:00",
      phone |-> "No proporcionado",
      notes |-> substring(userMessages, NotesLength)]

\* a variant without the second detection
analyzeForActions_MarkerOnly(responseText, messages) ==
  IF includes(responseText, <<ReservaMarker>>)
    THEN [type |-> "make_reservation",
          data |-> extractReservationData(messages, responseText)]
    ELSE NoAction

\* lines 143-164
analyzeForActions(responseText, messages) ==
  IF includes(responseText, <<ReservaMarker>>)
    THEN [type |-> "make_reservation",
          data |-> extractReservationData(messages, responseText)]
    ELSE IF includes(toLowerCase(responseText), <<"consultar", "disponibilidad">>)
      THEN [type |-> "check_availability"]
      ELSE NoAction

(***************************************************************************)
(* Voice actions and other responses of a handler.                         *)
(***************************************************************************)
NoKey == "none"

PlayAndRecord(audio, maxDuration, silenceTimeout, key) ==
  [action |-> "play_and_record", audio_url |-> audio,
   max_duration |-> maxDuration, silence_timeout |-> silenceTimeout,
   finish_on_key |-> key, next_webhook |-> "process-response"]

PlayAndHangup(audio) ==
  [action |-> "play_and_hangup", audio_url |-> audio,
   max_duration |-> 0, silence_timeout |-> 0,
   finish_on_key |-> NoKey, next_webhook |-> "none"]

\* the handler has not answered (yet)
NoAnswer ==
  [action |-> "none", audio_url |-> <<>>, max_duration |-> 0,
   silence_timeout |-> 0, finish_on_key |-> NoKey, next_webhook |-> "none"]

\* res.status(500).json({ error: ... })
Http500 == [NoAnswer EXCEPT !.action = "http_500"]

\* the async handler rejected: Express answers nothing
Unhandled == [NoAnswer EXCEPT !.action = "unhandled_rejection"]

VARIABLES
  activeConversations,  \* callId -> object id of its session, or NoObj
  heap,                 \* object id -> session object, or Free
  handler,              \* handler slot -> state of the handler running in it
  last,                 \* the handler that returned most recently, as it ended
  nreq,                 \* inbound events delivered so far
  clock,                \* the wall clock when it was last read
  probe                 \* a function of the adapter or of the extractor being
                        \* applied on its own: its arguments and its result

vars == <<activeConversations, heap, handler, last, nreq, clock, probe>>

\* no function is being applied on its own
NoProbe == [fn |-> "none"]

Free == [businessId |-> "free", messages |-> <<>>, startTime |-> 0]

NoResponse == [message |-> <<>>, action |-> NoAction, error |-> FALSE]

IdleHandler ==
  [pc |-> "idle", kind |-> "none", callId |-> "none", conversation |-> NoObj,
   userText |-> <<>>, dashboardData |-> "none", response |-> NoResponse,
   reservation |-> "none", speech |-> "none", error |-> "none",
   tempFile |-> "none", answer |-> NoAnswer]

\* the process has started: no session, no handler
Booted ==
  /\ activeConversations = [c \in Keys |-> NoObj]
  /\ heap = [o \in ObjIds |-> Free]
  /\ handler = [h \in Handlers |-> IdleHandler]
  /\ last = IdleHandler
  /\ nreq = 0
  /\ clock = 0

Init == Booted /\ probe = NoProbe

(***************************************************************************)
(* Helpers on the state.                                                   *)
(***************************************************************************)
InFlight(h) == handler[h].pc # "idle"

\* an inbound event is given to the lowest slot that runs no handler
CanStart(h) ==
  /\ nreq < MaxReq
  /\ ~InFlight(h)
  /\ \A k \in Handlers : k < h => InFlight(k)

\* objects no reference leads to are reclaimed by the garbage collector
Collect(hp, map, hs) ==
  [o \in ObjIds |->
     IF \/ \E c \in Keys : map[c] = o
        \/ \E h \in Handlers : hs[h].conversation = o
       THEN hp[o] ELSE Free]

NewObj == CHOOSE o \in ObjIds : heap[o] = Free /\ \A p \in ObjIds : heap[p] = Free => o <= p

push(hp, o, turn) == [hp EXCEPT ![o].messages = Append(@, turn)]

UserTurn(text) == [role |-> "user", content |-> text, action |-> [type |-> "undefined"]]

AssistantTurn(response) ==
  [role |-> "assistant", content |-> response.message, action |-> response.action]

\* the handler in slot h answered and returned: its locals are dropped
Finish(h, hs, answer, map) ==
  /\ last' = [hs[h] EXCEPT !.pc = "done", !.answer = answer,
                           !.conversation = NoObj]
  /\ handler' = [hs EXCEPT ![h] = IdleHandler]
  /\ heap' = Collect(heap, map, handler')

(***************************************************************************)
(* The gateways, as functions of what the outside world answers.           *)
(***************************************************************************)
\* services/tts.js: throws on an empty text and on any gateway error
generateSpeech(text, gatewayOk) ==
  IF IsEmptyText(text) THEN "throws"
  ELSE IF gatewayOk THEN "ok" ELSE "throws"

\* services/stt: the transcription, trimmed
transcribeAudio(transcription) == trim(transcription)

\* how a call of transcribeAudioFromUrl can go: the download fails before
\* the temporary file is written, or transcribeAudio throws once it is
\* written, or both succeed
TranscribeOutcomes == {"ok", "download_failed", "transcription_failed"}

\* a variant without the catch block: a failure is thrown to the caller
transcribeAudioFromUrl_Rethrows(outcome, transcription) ==
  CASE outcome = "ok" ->
         [text |-> transcribeAudio(transcription), tempFile |-> "deleted",
          threw |-> FALSE]
    [] outcome = "download_failed" ->
         [text |-> <<>>, tempFile |-> "none", threw |-> TRUE]
    [] outcome = "transcription_failed" ->
         [text |-> <<>>, tempFile |-> "written", threw |-> TRUE]

\* routes/voice.js 237-258: the text returned, and what became of the
\* temporary file uploads/temp-<now>.wav.  Any failure of the download or
\* of the transcription is caught and returns ''; the file is unlinked on
\* line 251 only, after transcribeAudio has returned
transcribeAudioFromUrl(outcome, transcription) ==
  CASE outcome = "ok" ->
         [text |-> transcribeAudio(transcription), tempFile |-> "deleted",
          threw |-> FALSE]
    [] outcome = "download_failed" ->
         [text |-> <<>>, tempFile |-> "none", threw |-> FALSE]
    [] outcome = "transcription_failed" ->
         [text |-> <<>>, tempFile |-> "written", threw |-> FALSE]

\* utils/dashboard.js: never throws, a failure yields the default data
getDashboardData(gatewayOk) == IF gatewayOk THEN "real" ELSE "default"

\* a variant whose catch block returns no text
processConversation_NoFallback(gatewayOk, completion, messages) ==
  IF gatewayOk
    THEN [message |-> completion,
          action |-> analyzeForActions(completion, messages), error |-> FALSE]
    ELSE [message |-> <<>>, action |-> NoAction, error |-> TRUE]

\* services/llm.js: never throws, a failure yields the fallback reply
processConversation(gatewayOk, completion, messages) ==
  IF gatewayOk
    THEN [message |-> completion,
          action |-> analyzeForActions(completion, messages), error |-> FALSE]
    ELSE [message |-> fallbackMessage, action |-> NoAction, error |-> TRUE]

\* a variant without the inner try/catch: the throw reaches the catch block
AfterReservation_Abort(outcome) == IF outcome = "failed" THEN "catch_tts" ELSE "tts"

\* routes/voice.js 119-126: where the handler goes on after makeReservation
AfterReservation(outcome) == "tts"

(***************************************************************************)
(* POST /voice/webhook                                                     *)
(***************************************************************************)
BusinessIdOf(body) == IF body = "absent" THEN "default" ELSE body

\* a variant that records the welcome as the first turn
NewSession_WithWelcome(businessId, now) ==
  [businessId |-> businessId,
   messages |-> <<[role |-> "assistant", content |-> welcomeMessage,
                   action |-> NoAction]>>,
   startTime |-> now]

NewSession(businessId, now) ==
  [businessId |-> businessId, messages |-> <<>>, startTime |-> now]

\* activeConversations.set(callId, {...}) of the webhook
createSession(map, hp, callId, businessId, now) ==
  [map |-> [map EXCEPT ![callId] = NewObj],
   heap |-> [hp EXCEPT ![NewObj] = NewSession(businessId, now)]]

\* lines 17-33: create the session, then await generateSpeech(welcomeMessage);
\* new Date() reads the clock, which never runs backwards
WebhookStart(h, callId, businessId, now) ==
  /\ CanStart(h)
  /\ now >= clock
  /\ clock' = now
  /\ LET created == createSession(activeConversations, heap, callId,
                                  BusinessIdOf(businessId), now)
     IN /\ activeConversations' = created.map
        /\ handler' = [handler EXCEPT ![h] =
              [IdleHandler EXCEPT !.pc = "wh_tts", !.kind = "webhook",
                                  !.callId = callId]]
        /\ heap' = Collect(created.heap, activeConversations', handler')
  /\ nreq' = nreq + 1
  /\ UNCHANGED <<last, probe>>

\* lines 33-52: the welcome audio is ready, or generateSpeech threw
WebhookSpeechDone(h, gatewayOk) ==
  /\ handler[h].pc = "wh_tts"
  /\ LET speech == generateSpeech(welcomeMessage, gatewayOk)
     IN IF speech = "ok"
          THEN Finish(h, handler, PlayAndRecord(welcomeMessage, 10, 3, "#"),
                      activeConversations)
          ELSE Finish(h, handler, Http500, activeConversations)
  /\ UNCHANGED <<activeConversations, nreq, clock, probe>>

(***************************************************************************)
(* POST /voice/process-response                                            *)
(***************************************************************************)
\* throw inside the try block: the catch block awaits generateSpeech(errorMessage)
Throw(h, hs, error) == [hs EXCEPT ![h].pc = "catch_tts", ![h].error = error]

\* Map.prototype.has: undefined is a key the map never holds
has(map, callId) == callId \in DOMAIN map /\ map[callId] # NoObj

\* lines 57-76: look the session up; without a recording URL the text is ''
\* and the handler goes straight to the retry prompt
ProcessStart(h, callId, recordingUrl) ==
  /\ CanStart(h)
  /\ LET fresh == [handler EXCEPT ![h] =
                     [IdleHandler EXCEPT !.kind = "process", !.callId = callId]]
     IN IF ~has(activeConversations, callId)
          THEN handler' = Throw(h, fresh, "Conversacion no encontrada")
          ELSE handler' = [fresh EXCEPT
                 ![h].conversation = activeConversations[callId],
                 ![h].pc = IF recordingUrl THEN "transcribing" ELSE "retry_tts"]
  /\ heap' = Collect(heap, activeConversations, handler')
  /\ nreq' = nreq + 1
  /\ UNCHANGED <<activeConversations, last, clock, probe>>

\* lines 70-99: the transcript arrives; an empty one asks for a retry, any
\* other is pushed as the user turn before getDashboardData is awaited
TranscribeDone(h, outcome, transcription) ==
  /\ handler[h].pc = "transcribing"
  /\ LET returned == transcribeAudioFromUrl(outcome, transcription)
         userText == returned.text
         hs == [handler EXCEPT ![h].tempFile = returned.tempFile]
     IN IF returned.threw
          THEN /\ handler' = Throw(h, hs, "Error de transcripcion")
               /\ UNCHANGED heap
          ELSE IF IsEmptyText(userText)
          THEN /\ handler' = [hs EXCEPT ![h].pc = "retry_tts",
                                        ![h].userText = userText]
               /\ UNCHANGED heap
          ELSE /\ handler' = [hs EXCEPT ![h].pc = "dashboard",
                                        ![h].userText = userText]
               /\ heap' = push(heap, handler[h].conversation, UserTurn(userText))
  /\ UNCHANGED <<activeConversations, last, nreq, clock, probe>>

\* lines 76-86: the retry prompt is ready, or generateSpeech threw
RetrySpeechDone(h, gatewayOk) ==
  /\ handler[h].pc = "retry_tts"
  /\ LET speech == generateSpeech(retryMessage, gatewayOk)
     IN IF speech = "ok"
          THEN /\ activeConversations' = activeConversations
               /\ Finish(h, handler, PlayAndRecord(retryMessage, 10, 3, NoKey),
                         activeConversations)
          ELSE /\ handler' = Throw(h, handler, "Error de sintesis de voz")
               /\ UNCHANGED <<activeConversations, heap, last>>
  /\ UNCHANGED <<nreq, clock, probe>>

\* lines 99-102: the business data arrive (or their defaults)
DashboardDone(h, gatewayOk) ==
  /\ handler[h].pc = "dashboard"
  /\ handler' = [handler EXCEPT ![h].pc = "llm",
                                ![h].dashboardData = getDashboardData(gatewayOk)]
  /\ UNCHANGED <<activeConversations, heap, last, nreq, clock, probe>>

\* a variant that awaits makeReservation for every action there is
AfterReply_AnyAction(response) ==
  IF response.action # NoAction THEN "reserve" ELSE "tts"

\* line 119: response.action && response.action.type === 'make_reservation'
AfterReply(response) ==
  IF response.action # NoAction /\ response.action.type = "make_reservation"
    THEN "reserve" ELSE "tts"

\* lines 102-121 with processConversation: the reply arrives (or the
\* fallback), the assistant turn is pushed, and a make_reservation action
\* makes the handler await makeReservation
LlmDone(h, gatewayOk, completion) ==
  /\ handler[h].pc = "llm"
  /\ LET conversation == handler[h].conversation
         response == processConversation(gatewayOk, completion,
                                         heap[conversation].messages)
     IN /\ heap' = push(heap, conversation, AssistantTurn(response))
        /\ handler' = [handler EXCEPT ![h].response = response,
                                      ![h].pc = AfterReply(response)]
  /\ UNCHANGED <<activeConversations, last, nreq, clock, probe>>

\* a variant that calls makeReservation again when it threw
ReserveDone_Retry(h, gatewayOk) ==
  /\ handler[h].pc = "reserve"
  /\ LET outcome == IF gatewayOk THEN "ok" ELSE "failed"
     IN handler' = [handler EXCEPT
                      ![h].reservation = outcome,
                      ![h].pc = IF gatewayOk THEN AfterReservation(outcome)
                                ELSE "reserve"]
  /\ UNCHANGED <<activeConversations, heap, last, nreq, clock, probe>>

\* lines 119-129: makeReservation returned or threw; the throw is logged
ReserveDone(h, gatewayOk) ==
  /\ handler[h].pc = "reserve"
  /\ LET outcome == IF gatewayOk THEN "ok" ELSE "failed"
     IN handler' = [handler EXCEPT ![h].reservation = outcome,
                                   ![h].pc = AfterReservation(outcome)]
  /\ UNCHANGED <<activeConversations, heap, last, nreq, clock, probe>>

\* lines 135-152: the answer once the reply has been synthesized
DecideAnswer(message, userText) ==
  IF shouldContinue(message, userText)
    THEN PlayAndRecord(message, 15, 4, NoKey)
    ELSE PlayAndHangup(message)

\* lines 129-152: the audio of the reply is ready, or generateSpeech threw
SpeechDone(h, gatewayOk) ==
  /\ handler[h].pc = "tts"
  /\ LET message == handler[h].response.message
         speech == generateSpeech(message, gatewayOk)
         answer == DecideAnswer(message, handler[h].userText)
     IN IF speech = "ok"
          THEN /\ activeConversations' =
                    IF answer.action = "play_and_hangup"
                      THEN [activeConversations EXCEPT ![handler[h].callId] = NoObj]
                      ELSE activeConversations
               /\ Finish(h, [handler EXCEPT ![h].speech = "ok"], answer,
                         activeConversations')
          ELSE /\ handler' = [Throw(h, handler, "Error de sintesis de voz")
                                EXCEPT ![h].speech = "failed"]
               /\ UNCHANGED <<activeConversations, heap, last>>
  /\ UNCHANGED <<nreq, clock, probe>>

\* lines 154-164: the catch block; a throw of its own generateSpeech is not
\* caught by anything and the request is left without an answer
CatchSpeechDone(h, gatewayOk) ==
  /\ handler[h].pc = "catch_tts"
  /\ LET speech == generateSpeech(errorMessage, gatewayOk)
     IN IF speech = "ok"
          THEN Finish(h, handler, PlayAndHangup(errorMessage), activeConversations)
          ELSE Finish(h, handler, Unhandled, activeConversations)
  /\ UNCHANGED <<activeConversations, nreq, clock, probe>>

(***************************************************************************)
(* Specifications.                                                         *)
(***************************************************************************)
BodyBusinessIds == {"absent", "b1"}

Start ==
  \E h \in Handlers, callId \in CallIds :
     \/ \E businessId \in BodyBusinessIds, now \in Times :
           WebhookStart(h, callId, businessId, now)
     \/ \E recordingUrl \in BOOLEAN : ProcessStart(h, callId, recordingUrl)

Continue ==
  \E h \in Handlers, gatewayOk \in BOOLEAN :
     \/ WebhookSpeechDone(h, gatewayOk)
     \/ \E outcome \in TranscribeOutcomes, transcription \in Transcripts :
           TranscribeDone(h, outcome, transcription)
     \/ RetrySpeechDone(h, gatewayOk)
     \/ DashboardDone(h, gatewayOk)
     \/ \E completion \in Completions : LlmDone(h, gatewayOk, completion)
     \/ ReserveDone(h, gatewayOk)
     \/ SpeechDone(h, gatewayOk)
     \/ CatchSpeechDone(h, gatewayOk)

\* events are delivered at any time, also while handlers are suspended
Next == Start \/ Continue

Spec == Init /\ [][Next]_vars

\* events are delivered one at a time: the next one only after the
\* handler of the previous one has answered
NoneInFlight == \A h \in Handlers : ~InFlight(h)

WebhookStartSeq(h, callId, businessId, now) ==
  NoneInFlight /\ WebhookStart(h, callId, businessId, now)

ProcessStartSeq(h, callId, recordingUrl) ==
  NoneInFlight /\ ProcessStart(h, callId, recordingUrl)

StartSeq ==
  \E h \in Handlers, callId \in CallIds :
     \/ \E businessId \in BodyBusinessIds, now \in Times :
           WebhookStartSeq(h, callId, businessId, now)
     \/ \E recordingUrl \in BOOLEAN : ProcessStartSeq(h, callId, recordingUrl)

NextSeq == StartSeq \/ Continue

SpecSeq == Init /\ [][NextSeq]_vars

(***************************************************************************)
(* The action extractor on its own: analyzeForActions applied to a reply   *)
(* and a history drawn from what callers say when they ask for a table.    *)
(***************************************************************************)
NameSaid == { <<>>, <<"me", "llamo", "Maria">>, <<"mesa", "nombre", "de", "Luis">>,
              <<"Soy">> }
PeopleSaid == { <<>>, <<"4", "personas">>, <<"mesa", "para", "4">> }
DateSaid == { <<>>, <<"manana">>, <<"Manana">>, <<"pasado", "manana">>, <<"15/03">> }
TimeSaid == { <<>>, <<"a", "las", "9">>, <<"para", "las", "21:30">>,
              <<"a", "las", "9", "de", "la", "noche">>, <<"las", "9">> }

Replies == { <<"vale">>, <<"Perfecto", ReservaMarker>>,
             <<"Consultar", "disponibilidad">>,
             <<"consultar", "disponibilidad", ReservaMarker>> }

\* the caller says everything in one turn, or in two with a reply in between
Histories ==
  {<<UserTurn(n \o p \o d \o t)>> :
      n \in NameSaid, p \in PeopleSaid, d \in DateSaid, t \in TimeSaid}
  \cup
  {<<UserTurn(n \o p), AssistantTurn([NoResponse EXCEPT !.message = <<"vale">>]),
     UserTurn(d \o t)>> :
      n \in NameSaid \ {<<>>}, p \in PeopleSaid, d \in DateSaid \ {<<>>}, t \in TimeSaid}

Pending == [type |-> "pending"]

InitExtractor ==
  /\ Booted
  /\ probe \in {[fn |-> "analyzeForActions", responseText |-> r, messages |-> m,
                 result |-> Pending] : r \in Replies, m \in Histories}

ApplyExtractor ==
  /\ probe.fn = "analyzeForActions"
  /\ probe.result = Pending
  /\ probe' = [probe EXCEPT
                 !.result = analyzeForActions(probe.responseText, probe.messages)]
  /\ UNCHANGED <<activeConversations, heap, handler, last, nreq, clock>>

NextExtractor == ApplyExtractor

SpecExtractor == InitExtractor /\ [][NextExtractor]_vars

(***************************************************************************)
(* Call-start events that may come without a call identifier: the webhook  *)
(* then gives the call the clock reading as its identifier.  Call-start    *)
(* events arrive at any time, recording events one at a time.              *)
(***************************************************************************)
Undefined == "absent"

\* a || b
Or(a, b) == IF a # Undefined THEN a ELSE b

\* line 20: req.body.callId || req.body.CallSid || Date.now().toString()
callIdOf(body, now) ==
  Or(body.callId, Or(body.CallSid, DateNowString(now)))

WebhookBodies ==
  [callId : {Undefined, "c1"}, CallSid : {Undefined, "c2"},
   businessId : BodyBusinessIds]

\* lines 16-33 for a request body
WebhookPost(h, body, now) ==
  WebhookStart(h, callIdOf(body, now), body.businessId, now)

\* the bodies of the recording events: the provider names the call in
\* callId or in CallSid, or in neither; the recording is there or not
ProcessBodies ==
  [callId : {Undefined, "c1"} \cup SynthIds, CallSid : {Undefined, "c2"},
   recordingUrl : BOOLEAN]

\* lines 56-63 for a request body: req.body.callId || req.body.CallSid
ProcessPost(h, body) ==
  ProcessStartSeq(h, Or(body.callId, body.CallSid), body.recordingUrl)

StartAnon ==
  \E h \in Handlers :
     \/ \E body \in WebhookBodies, now \in Times : WebhookPost(h, body, now)
     \/ \E body \in ProcessBodies : ProcessPost(h, body)

NextAnon == StartAnon \/ Continue

SpecAnon == Init /\ [][NextAnon]_vars

(***************************************************************************)
(* The provider adapter (src/config/phone.js).                             *)
(***************************************************************************)
\* the keys of PHONE_PROVIDERS
Providers == {"plivo", "voximplant", "voipms"}

\* getProviderConfig().webhookFormat
webhookFormat(provider) ==
  CASE provider = "plivo" -> "plivo"
    [] provider = "voximplant" -> "voximplant"
    [] provider = "voipms" -> "custom"

\* lines 244-275
parseIncomingCall(provider, body, now) ==
  CASE webhookFormat(provider) = "plivo" ->
         [callId |-> body.CallUUID, from |-> body.From, to |-> body.To,
          direction |-> body.Direction, callStatus |-> body.CallStatus]
    [] webhookFormat(provider) = "voximplant" ->
         [callId |-> body.call_id, from |-> body.from_number,
          to |-> body.to_number, direction |-> "inbound",
          callStatus |-> body.event]
    [] OTHER ->
         [callId |-> Or(body.callId, Or(body.CallSid, DateNowString(now))),
          from |-> Or(body.from, body.From), to |-> Or(body.to, body.To),
          direction |-> Or(body.direction, "inbound"),
          callStatus |-> Or(body.status, "in-progress")]

\* record_options.max_duration || d: a missing number reads as 0
OrNumber(x, d) == IF x = 0 THEN d ELSE x

\* record_options.finish_on_key || d
OrKey(x, d) == IF x = NoKey THEN d ELSE x

\* a record command that keeps the durations in seconds
generatePlayAndRecord_Seconds(format, params) ==
  CASE format = "plivo" ->
         [message |-> "ok",
          content |->
            <<"<Response>", "<Play>", params.audio_url, "</Play>",
              "<Record", "action=", params.next_webhook,
              "maxLength=",
              ToString(OrNumber(params.record_options.max_duration, 10)),
              "timeout=",
              ToString(OrNumber(params.record_options.silence_timeout, 3)),
              "finishOnKey=", OrKey(params.record_options.finish_on_key, "#"),
              "playBeep=", "false", "/>", "</Response>">>]
    [] format = "voximplant" ->
         [commands |->
            <<[command |-> "playSound", url |-> params.audio_url],
              [command |-> "record",
               maxDuration |->
                 OrNumber(params.record_options.max_duration, 10),
               silenceTimeout |->
                 OrNumber(params.record_options.silence_timeout, 3),
               webhook |-> params.next_webhook]>>]
    [] OTHER ->
         [action |-> "play_and_record", audio_url |-> params.audio_url,
          record_options |-> params.record_options,
          next_webhook |-> params.next_webhook]

\* lines 125-165
generatePlayAndRecord(format, params) ==
  CASE format = "plivo" ->
         [message |-> "ok",
          content |->
            <<"<Response>", "<Play>", params.audio_url, "</Play>",
              "<Record", "action=", params.next_webhook,
              "maxLength=",
              ToString(OrNumber(params.record_options.max_duration, 10)),
              "timeout=",
              ToString(OrNumber(params.record_options.silence_timeout, 3)),
              "finishOnKey=", OrKey(params.record_options.finish_on_key, "#"),
              "playBeep=", "false", "/>", "</Response>">>]
    [] format = "voximplant" ->
         [commands |->
            <<[command |-> "playSound", url |-> params.audio_url],
              [command |-> "record",
               maxDuration |->
                 OrNumber(params.record_options.max_duration, 10) * 1000,
               silenceTimeout |->
                 OrNumber(params.record_options.silence_timeout, 3) * 1000,
               webhook |-> params.next_webhook]>>]
    [] OTHER ->
         [action |-> "play_and_record", audio_url |-> params.audio_url,
          record_options |-> params.record_options,
          next_webhook |-> params.next_webhook]

\* lines 170-199
generatePlayAndHangup(format, params) ==
  CASE format = "plivo" ->
         [message |-> "ok",
          content |-> <<"<Response>", "<Play>", params.audio_url, "</Play>",
                        "<Hangup/>", "</Response>">>]
    [] format = "voximplant" ->
         [commands |-> <<[command |-> "playSound", url |-> params.audio_url],
                         [command |-> "hangup"]>>]
    [] OTHER ->
         [action |-> "play_and_hangup", audio_url |-> params.audio_url]

\* lines 204-237; the voice is 'es-ES-Standard-A' unless params names one
generateSay(format, params) ==
  LET voice == Or(params.voice, "es-ES-Standard-A")
  IN CASE format = "plivo" ->
            [message |-> "ok",
             content |-> <<"<Response>", "<Speak", "voice=", voice,
                           "language=", "es-ES", ">", params.text,
                           "</Speak>", "</Response>">>]
       [] format = "voximplant" ->
            [commands |-> <<[command |-> "say", text |-> params.text,
                             language |-> "es-ES", voice |-> voice]>>]
       [] OTHER ->
            [action |-> "say", text |-> params.text, voice |-> voice]

\* line 118: throw new Error(`Accion no soportada: ${action}`)
Unsupported(action) == [threw |-> "Accion no soportada", name |-> action]

\* lines 107-120
generateVoiceResponse(provider, action, params) ==
  CASE action = "play_and_record" ->
         generatePlayAndRecord(webhookFormat(provider), params)
    [] action = "play_and_hangup" ->
         generatePlayAndHangup(webhookFormat(provider), params)
    [] action = "say" ->
         generateSay(webhookFormat(provider), params)
    [] OTHER -> Unsupported(action)

\* the parameters of a voice action, as generateVoiceResponse takes them
ParamsOf(answer) ==
  [audio_url |-> answer.audio_url,
   record_options |-> [max_duration |-> answer.max_duration,
                       silence_timeout |-> answer.silence_timeout,
                       finish_on_key |-> answer.finish_on_key],
   next_webhook |-> answer.next_webhook]

\* the body res.json() sends for a voice action of a handler
Json(answer) ==
  IF answer.action = "play_and_record"
    THEN [action |-> answer.action, audio_url |-> answer.audio_url,
          record_options |-> ParamsOf(answer).record_options,
          next_webhook |-> answer.next_webhook]
    ELSE [action |-> answer.action, audio_url |-> answer.audio_url]

(***************************************************************************)
(* The adapter on its own: parseIncomingCall applied to a call-start body, *)
(* under each provider the process can be configured with.                 *)
(***************************************************************************)
\* a body with the given identifier fields; the other fields of the three
\* formats are all there or all missing
CallBody(uuid, call_id, callId, sid, filled) ==
  LET v(x) == IF filled THEN x ELSE Undefined
  IN [CallUUID |-> uuid, call_id |-> call_id, callId |-> callId, CallSid |-> sid,
      From |-> v("+34600"), To |-> v("+34911"), Direction |-> v("inbound"),
      CallStatus |-> v("ringing"), from_number |-> v("+34600"),
      to_number |-> v("+34911"), event |-> v("incoming_call"),
      from |-> v("+34600"), to |-> v("+34911"), direction |-> v("outbound"),
      status |-> v("ringing")]

CallBodies ==
  {CallBody(uuid, call_id, callId, sid, filled) :
     uuid \in {Undefined, "c1"}, call_id \in {Undefined, "c1"},
     callId \in {Undefined, "c1"}, sid \in {Undefined, "c2"},
     filled \in BOOLEAN}

NotParsed == [callId |-> "pending"]

\* the action names generateVoiceResponse is called with: the three it
\* renders and one it does not know
ActionNames == {"play_and_record", "play_and_hangup", "say", "dial"}

\* the params of a rendering: each record option is given or missing, and so
\* is the voice
RenderParams ==
  {[audio_url |-> "audio.mp3",
    record_options |-> [max_duration |-> d, silence_timeout |-> t,
                        finish_on_key |-> k],
    next_webhook |-> "process-response",
    text |-> <<"Hola">>, voice |-> v] :
     d \in {0, 15}, t \in {0, 4}, k \in {NoKey, "*"},
     v \in {Undefined, "es-ES-Wavenet-B"}}

NotRendered == [pending |-> TRUE]

InitAdapter ==
  /\ Booted
  /\ probe \in {[fn |-> "parseIncomingCall", provider |-> p, body |-> b,
                 now |-> t, result |-> NotParsed] :
                  p \in Providers, b \in CallBodies, t \in Times}
             \cup
             {[fn |-> "generateVoiceResponse", provider |-> p, action |-> a,
               params |-> ps, result |-> NotRendered] :
                p \in Providers, a \in ActionNames, ps \in RenderParams}

ApplyParseIncomingCall ==
  /\ probe.fn = "parseIncomingCall"
  /\ probe.result = NotParsed
  /\ probe' = [probe EXCEPT
                 !.result = parseIncomingCall(probe.provider, probe.body, probe.now)]
  /\ UNCHANGED <<activeConversations, heap, handler, last, nreq, clock>>

ApplyGenerateVoiceResponse ==
  /\ probe.fn = "generateVoiceResponse"
  /\ probe.result = NotRendered
  /\ probe' = [probe EXCEPT
                 !.result = generateVoiceResponse(probe.provider, probe.action,
                                                  probe.params)]
  /\ UNCHANGED <<activeConversations, heap, handler, last, nreq, clock>>

NextAdapter == ApplyParseIncomingCall \/ ApplyGenerateVoiceResponse

SpecAdapter == InitAdapter /\ [][NextAdapter]_vars

(***************************************************************************)
(* makeReservation on its own (utils/dashboard.js 193-259): the requests   *)
(* it sends to the backend, in the order it sends them.  probe holds the   *)
(* call: its argument, where it stands, the requests sent so far and what  *)
(* the search returned.                                                    *)
(***************************************************************************)
\* the reservation data a caller can pass: a field is there, or it is falsy
\* ('' for a text, 0 for the number of people)
ReservationInputs ==
  {[name |-> n, people |-> p, date |-> d, time |-> t,
    phone |-> "No proporcionado", notes |-> <<"hola">>] :
     n \in {"", "Cliente", "Maria"}, p \in {0, 2, 4},
     d \in {"", "hoy", "15/03"}, t \in {"", "20:00"}}

\* lines 197-202: the first of name, people, date, time that is falsy
MissingField(data) ==
  CASE data.name = "" -> "name"
    [] data.people = 0 -> "people"
    [] data.date = "" -> "date"
    [] data.time = "" -> "time"
    [] OTHER -> "none"

\* lines 332-368 for the dates above, on the 4th of November 2026
formatDate(date) ==
  CASE date = "hoy" -> "2026-11-04"
    [] date = "15/03" -> "2026-03-15"
    [] OTHER -> "2026-11-04"

\* lines 205-209; people is a number already, which parseInt leaves as it is
mesaSearch(data) ==
  [fecha |-> formatDate(data.date), hora |-> data.time, personas |-> data.people]

\* what POST /buscar-mesa can answer with: nothing, a body without a table,
\* a body with the id of a table, a body with a table
NullResponse == [null |-> TRUE]

MesaResponses ==
  {NullResponse,
   [mesaId |-> Undefined, mesa |-> Undefined],
   [mesaId |-> "m7", mesa |-> Undefined],
   [mesaId |-> Undefined, mesa |-> "mesa 7"]}

\* how a request to the backend can end: with a body, with an HTTP error
\* status (error.response is set), or without any response within 15 s
RequestOutcomes == {"ok", "status", "unreachable"}

\* a variant that only tests that there is a body
NoTable_NullOnly(mesaResponse) == mesaResponse = NullResponse

\* line 213: !mesaResponse || (!mesaResponse.mesaId && !mesaResponse.mesa)
NoTable(mesaResponse) ==
  \/ mesaResponse = NullResponse
  \/ /\ mesaResponse.mesaId = Undefined
     /\ mesaResponse.mesa = Undefined

\* lines 218-231; the table of an answer stands for its id
reservationPayload(data, mesaResponse) ==
  [mesaId |-> Or(mesaResponse.mesaId, mesaResponse.mesa),
   fecha |-> formatDate(data.date), hora |-> data.time,
   personas |-> data.people, nombre |-> data.name,
   telefono |-> data.phone, notas |-> data.notes, origen |-> "asistente_voz"]

\* lines 249-258: the catch block rewraps whatever was thrown
Rethrown(outcome, message) ==
  IF outcome = "status" THEN <<"Error del backend:", message>>
  ELSE <<"Error de conexion con backend:", message>>

NotSearched == [pending |-> TRUE]

InitReservation ==
  /\ Booted
  /\ probe \in {[fn |-> "makeReservation", data |-> d, pc |-> "called",
                 requests |-> <<>>, mesaResponse |-> NotSearched,
                 error |-> <<>>] : d \in ReservationInputs}

\* lines 193-211: the fields are checked, then POST /buscar-mesa is sent
ReservationStart ==
  /\ probe.fn = "makeReservation"
  /\ probe.pc = "called"
  /\ LET field == MissingField(probe.data)
     IN IF field # "none"
          THEN probe' = [probe EXCEPT
                 !.pc = "threw",
                 !.error = Rethrown("thrown",
                             "Campo requerido faltante: " \o field)]
          ELSE probe' = [probe EXCEPT
                 !.pc = "searching",
                 !.requests = <<[url |-> "/buscar-mesa",
                                 body |-> mesaSearch(probe.data)]>>]
  /\ UNCHANGED <<activeConversations, heap, handler, last, nreq, clock>>

\* lines 211-233 with buscarMesa (172-190): the search answers or fails;
\* with a table in the answer POST /crear-reserva is sent
SearchDone(outcome, mesaResponse) ==
  /\ probe.fn = "makeReservation"
  /\ probe.pc = "searching"
  /\ IF outcome # "ok"
       THEN probe' = [probe EXCEPT
              !.pc = "threw", !.error = Rethrown(outcome, "buscar-mesa")]
       ELSE IF NoTable(mesaResponse)
         THEN probe' = [probe EXCEPT
                !.pc = "threw", !.mesaResponse = mesaResponse,
                !.error = Rethrown("thrown", "No hay mesas disponibles")]
         ELSE probe' = [probe EXCEPT
                !.pc = "creating", !.mesaResponse = mesaResponse,
                !.requests =
                   Append(@, [url |-> "/crear-reserva",
                              body |-> reservationPayload(probe.data,
                                                          mesaResponse)])]
  /\ UNCHANGED <<activeConversations, heap, handler, last, nreq, clock>>

\* lines 233-258: the reservation is created, or the request fails
CreateDone(outcome) ==
  /\ probe.fn = "makeReservation"
  /\ probe.pc = "creating"
  /\ IF outcome = "ok"
       THEN probe' = [probe EXCEPT !.pc = "returned"]
       ELSE probe' = [probe EXCEPT
              !.pc = "threw", !.error = Rethrown(outcome, "crear-reserva")]
  /\ UNCHANGED <<activeConversations, heap, handler, last, nreq, clock>>

NextReservation ==
  \/ ReservationStart
  \/ \E outcome \in RequestOutcomes, mesaResponse \in MesaResponses :
        SearchDone(outcome, mesaResponse)
  \/ \E outcome \in RequestOutcomes : CreateDone(outcome)

SpecReservation == InitReservation /\ [][NextReservation]_vars

(***************************************************************************)
(* Progress.  A handler suspended at an await goes on when the awaited     *)
(* promise settles.  SpecAnswered supposes that every gateway settles      *)
(* every call sooner or later.  SpecTimeouts supposes it only of the calls *)
(* the source bounds with a timeout: those of backendAxios (timeout:       *)
(* 15000, utils/dashboard.js), which getDashboardData and makeReservation  *)
(* go through; fetch(audioUrl) and the calls of the OpenAI client are made *)
(* without a timeout or an abort signal and settle when the gateway will.  *)
(* No client is obliged to send a further event.                           *)
(***************************************************************************)
SpecAnswered == SpecSeq /\ WF_vars(Continue)

DashboardSettles ==
  \E h \in Handlers, gatewayOk \in BOOLEAN : DashboardDone(h, gatewayOk)

ReservationSettles ==
  \E h \in Handlers, gatewayOk \in BOOLEAN : ReserveDone(h, gatewayOk)

SpecTimeouts ==
  SpecSeq /\ WF_vars(DashboardSettles) /\ WF_vars(ReservationSettles)

(***************************************************************************)
(* Vocabulary of the properties.                                           *)
(***************************************************************************)
Sessions == {o \in ObjIds : heap[o] # Free}

HasSession(c) == activeConversations[c] # NoObj

SessionOf(c) == heap[activeConversations[c]]

\* some handler has returned; last describes it as it ended
Returned == last.pc = "done"

\* the handler in slot h takes a step
Steps(h) == InFlight(h) /\ handler'[h] # handler[h]

\* the handler in slot h answers (or is left without an answer) in this step
Finishes(h) == InFlight(h) /\ ~InFlight(h)'

\* the handler of slot h after its step
After(h) == IF Finishes(h) THEN last' ELSE handler'[h]

IsVoiceAction(answer) == answer.action \in {"play_and_record", "play_and_hangup"}

\* a recording event whose callId had a session
KnownRecording(r) ==
  r.kind = "process" /\ r.error # "Conversacion no encontrada"

RolesFrom(messages, first, second) ==
  \A i \in 1..Len(messages) :
     messages[i].role = IF i % 2 = 1 THEN first ELSE second

(***************************************************************************)
(* C1: the messages of a session start with the Assistant welcome turn and *)
(* the roles alternate afterwards.                                         *)
(***************************************************************************)
C1_StartsWithWelcome ==
  \A o \in Sessions :
     /\ heap[o].messages # <<>>
     /\ RolesFrom(heap[o].messages, "assistant", "user")

(***************************************************************************)
(* C1 as amended: with events handled one after another, the messages of a *)
(* session are empty after the call start (the welcome is not recorded),   *)
(* then alternate User, Assistant starting with User; their number is odd  *)
(* exactly while a handler is between its two pushes, so a handler asking  *)
(* for a retry after an empty transcript has appended nothing.             *)
(***************************************************************************)
C1_AlternatesFromUser ==
  \A o \in Sessions :
     /\ RolesFrom(heap[o].messages, "user", "assistant")
     /\ Len(heap[o].messages) % 2 = 1 <=>
          \E h \in Handlers : /\ handler[h].conversation = o
                              /\ handler[h].pc \in {"dashboard", "llm"}

C1_Witness ==
  \E c \in CallIds :
     /\ HasSession(c)
     /\ Len(SessionOf(c).messages) = 4
     /\ Returned
     /\ last.callId = c

(***************************************************************************)
(* C2: a call-start event for a callId that has a session leaves that      *)
(* session (businessId, messages, startTime) as it was.                    *)
(***************************************************************************)
C2_CreateIdempotent ==
  [][\A h \in Handlers, c \in CallIds :
       (/\ ~InFlight(h)
        /\ handler'[h].pc = "wh_tts"
        /\ handler'[h].callId = c
        /\ HasSession(c))
       => /\ activeConversations'[c] # NoObj
          /\ heap'[activeConversations'[c]] = SessionOf(c)]_vars

(***************************************************************************)
(* C3: the turns of overlapping recording events of one call are appended  *)
(* as by some sequential execution: never two User turns in a row.         *)
(***************************************************************************)
C3_NoAdjacentUserTurns ==
  \A o \in Sessions :
     \A i \in 1..(Len(heap[o].messages) - 1) :
        ~(/\ heap[o].messages[i].role = "user"
          /\ heap[o].messages[i + 1].role = "user")

(***************************************************************************)
(* C4: whenever a recording event whose reply says farewell is answered,   *)
(* the answer is PlayAndHangup and the session of its callId is no longer  *)
(* in the store.                                                           *)
(***************************************************************************)
C4_FarewellRemovesSession ==
  (/\ Returned
   /\ last.kind = "process"
   /\ SaysFarewell(last.response.message)
   /\ IsVoiceAction(last.answer))
  => /\ last.answer.action = "play_and_hangup"
     /\ ~HasSession(last.callId)

(***************************************************************************)
(* C5: a recording event for a callId without a session is answered with   *)
(* the generic-error PlayAndHangup, creates no session and invokes no      *)
(* transcription, business-data, reply or reservation gateway.             *)
(***************************************************************************)
C5_UnknownCallRejected ==
  (Returned /\ last.kind = "process" /\ ~KnownRecording(last))
  => /\ last.answer = PlayAndHangup(errorMessage)
     /\ ~HasSession(last.callId)
     /\ last.userText = <<>>
     /\ last.dashboardData = "none"
     /\ last.response = NoResponse
     /\ last.reservation = "none"

(***************************************************************************)
(* C6: whenever a recording event for a known callId whose transcript is   *)
(* empty or whitespace-only is answered with a voice action, that action   *)
(* is PlayAndRecord.                                                       *)
(***************************************************************************)
C6_EmptyTranscriptRetries ==
  (/\ Returned
   /\ KnownRecording(last)
   /\ trim(last.userText) = <<>>
   /\ IsVoiceAction(last.answer))
  => last.answer.action = "play_and_record"

(***************************************************************************)
(* C6 as amended: no step of the handler of such an event changes the      *)
(* store or the messages of any session (an object is at most reclaimed),  *)
(* and the handler ends in one of three ways: the retry PlayAndRecord when *)
(* the retry prompt was synthesized, else the catch block's generic-error  *)
(* PlayAndHangup, else (the catch block's synthesis failing too) no answer.*)
(***************************************************************************)
C6_EmptyTranscriptFrame ==
  [][\A h \in Handlers :
       (/\ Steps(h)
        /\ KnownRecording(After(h))
        /\ trim(After(h).userText) = <<>>)
       => /\ activeConversations' = activeConversations
          /\ \A o \in ObjIds : heap'[o] \in {heap[o], Free}
          /\ Finishes(h) =>
               /\ last'.answer \in
                    {PlayAndRecord(retryMessage, 10, 3, NoKey),
                     PlayAndHangup(errorMessage), Unhandled}
               /\ handler[h].pc = "retry_tts" <=>
                    last'.answer.action = "play_and_record"]_vars

C6_Witness ==
  /\ Returned
  /\ KnownRecording(last)
  /\ last.userText = <<>>
  /\ last.tempFile = "deleted"
  /\ last.answer = PlayAndRecord(retryMessage, 10, 3, NoKey)
  /\ HasSession(last.callId)
  /\ Len(SessionOf(last.callId).messages) = 2

C8_AlwaysVoiceAction == Returned => IsVoiceAction(last.answer)

(***************************************************************************)
(* C9: a recording event with a non-empty transcript during which the      *)
(* business-data gateway or the reply-generation gateway failed, and whose *)
(* reply has been synthesized, is answered with PlayAndRecord and keeps    *)
(* its session.                                                            *)
(***************************************************************************)
GatewayFailed(r) == r.dashboardData = "default" \/ r.response.error

C9_FailureStillRecords ==
  (/\ Returned
   /\ last.kind = "process"
   /\ GatewayFailed(last)
   /\ last.speech = "ok")
  => /\ last.answer.action = "play_and_record"
     /\ HasSession(last.callId)

(***************************************************************************)
(* C9 as amended: neither failure aborts the turn.  Whatever the           *)
(* business-data gateway answers, the handler goes on to the reply with    *)
(* the User turn appended; whatever the reply gateway answers, the         *)
(* Assistant turn is appended; after a reply-generation failure that turn  *)
(* is the fallback apology with no action, no step of the handler removes  *)
(* a session, and the answer is PlayAndRecord of the fallback once it has  *)
(* been synthesized.  After a business-data failure alone the turn ends as *)
(* the reply decides, as it does with real data.                           *)
(***************************************************************************)
C9_FailureKeepsTurn ==
  [][\A h \in Handlers :
       (Steps(h) /\ handler[h].kind = "process")
       => LET o == handler[h].conversation
              before == heap[o].messages
              after == heap'[o].messages
          IN /\ handler[h].pc = "dashboard" =>
                  /\ handler'[h].pc = "llm"
                  /\ \E i \in 1..Len(after) :
                        after[i] = UserTurn(handler[h].userText)
             /\ handler[h].pc = "llm" =>
                  /\ handler'[h].pc \in {"reserve", "tts"}
                  /\ after = Append(before, AssistantTurn(handler'[h].response))
             /\ (handler[h].pc = "llm" /\ handler'[h].response.error) =>
                  /\ handler'[h].pc = "tts"
                  /\ handler'[h].response.message = fallbackMessage
                  /\ handler'[h].response.action = NoAction
             /\ handler[h].response.error =>
                  /\ activeConversations' = activeConversations
                  /\ (handler[h].pc = "tts" /\ Finishes(h)) =>
                        last'.answer =
                          PlayAndRecord(fallbackMessage, 15, 4, NoKey)]_vars

\* both gateways failed, both turns are in the session, the call goes on
C9_Witness ==
  /\ Returned
  /\ last.dashboardData = "default"
  /\ last.response.error
  /\ last.answer = PlayAndRecord(fallbackMessage, 15, 4, NoKey)
  /\ HasSession(last.callId)
  /\ SessionOf(last.callId).messages =
       <<UserTurn(last.userText), AssistantTurn(last.response)>>

(***************************************************************************)
(* C10: a failure of the reservation gateway changes neither the Assistant *)
(* turn already appended nor the answer.  A handler that awaited           *)
(* makeReservation goes on to synthesize the reply whether the call        *)
(* succeeded or failed; while it does, the Assistant turn with the reply   *)
(* is in its session; and once the reply has been synthesized its answer   *)
(* is the one the reply alone decides.                                     *)
(***************************************************************************)
C10_ReservationFailureIgnored ==
  \A r \in {handler[h] : h \in Handlers} \cup {last} :
     r.reservation # "none"
     => /\ r.pc \in {"tts", "catch_tts", "done"}
        /\ r.speech = "none" <=> r.pc = "tts"
        /\ r.pc = "tts" =>
             \E i \in 1..Len(heap[r.conversation].messages) :
                LET turn == heap[r.conversation].messages[i]
                IN /\ turn.role = "assistant"
                   /\ turn.content = r.response.message
                   /\ turn.action.type = "make_reservation"
        /\ (r.pc = "done" /\ r.speech = "ok") =>
             r.answer =
               IF SaysFarewell(r.response.message)
                 THEN PlayAndHangup(r.response.message)
                 ELSE PlayAndRecord(r.response.message, 15, 4, NoKey)

C10_Witness ==
  /\ Returned
  /\ last.reservation = "failed"
  /\ last.answer = PlayAndRecord(<<"vale", ReservaMarker>>, 15, 4, NoKey)
  /\ HasSession(last.callId)
  /\ SessionOf(last.callId).messages[2].content = <<"vale", ReservaMarker>>

(***************************************************************************)
(* Vocabulary of the properties of the extractor.                          *)
(***************************************************************************)
\* analyzeForActions has been applied
Extracted == probe.fn = "analyzeForActions" /\ probe.result # Pending

HasMarker(responseText) == includes(responseText, <<ReservaMarker>>)

\* the search buffer of the history that was passed
Buffer == joinUserMessages(probe.messages)

(***************************************************************************)
(* C11: for a reply without the reservation marker the extractor returns   *)
(* no action, whatever the history.                                        *)
(***************************************************************************)
C11_NoMarkerNoAction ==
  (Extracted /\ ~HasMarker(probe.responseText)) => probe.result = NoAction

(***************************************************************************)
(* C11 as amended: for a reply without the marker the extractor returns no *)
(* reservation action and reads nothing from the history: it returns the   *)
(* check_availability action, without data, exactly when the reply says    *)
(* 'consultar disponibilidad' in any letter case, and no action otherwise. *)
(***************************************************************************)
C11_NoMarkerNoReservation ==
  (Extracted /\ ~HasMarker(probe.responseText))
  => /\ probe.result.type # "make_reservation"
     /\ DOMAIN probe.result = {"type"}
     /\ probe.result.type = "check_availability" <=>
          includes(toLowerCase(probe.responseText), <<"consultar", "disponibilidad">>)
     /\ probe.result.type # "check_availability" => probe.result = NoAction

C11_Witness ==
  /\ Extracted
  /\ probe.responseText = <<"Consultar", "disponibilidad">>
  /\ probe.result.type = "check_availability"
  /\ Len(Buffer) > 0

(***************************************************************************)
(* C12: for a reply with the marker the action is a make_reservation whose *)
(* data are a complete record: name, people, date, time, phone and notes   *)
(* are all set; and each of the four pattern fields is a text its own      *)
(* pattern captures in the joined user turns, or its default (Cliente, 2,  *)
(* hoy, 20:00) when its own pattern matches nowhere, whatever the other    *)
(* three patterns do.                                                      *)
(***************************************************************************)
C12_CompleteRecord ==
  (Extracted /\ HasMarker(probe.responseText))
  => LET data == probe.result.data
         At == 1..Len(Buffer)
     IN /\ probe.result.type = "make_reservation"
        /\ DOMAIN data = {"name", "people", "date", "time", "phone", "notes"}
        /\ data.name \in WordTokens \cup {"Cliente"}
        /\ data.people \in Nat
        /\ data.date # ""
        /\ data.time # ""
        /\ data.phone = "No proporcionado"
        /\ data.notes = Buffer
        /\ IF \E i \in At : NameCaptureAt(Buffer, i)
             THEN \E i \in At : NameCaptureAt(Buffer, i) /\ data.name = Buffer[i]
             ELSE data.name = "Cliente"
        /\ IF \E i \in At : PeopleCaptureAt(Buffer, i)
             THEN \E i \in At : /\ PeopleCaptureAt(Buffer, i)
                                /\ data.people = parseInt(Buffer[i])
             ELSE data.people = 2
        /\ IF \E i \in At : DateCaptureAt(Buffer, i)
             THEN \E i \in At : /\ DateCaptureAt(Buffer, i)
                                /\ data.date = DateCapture(Buffer, i)
             ELSE data.date = "hoy"
        /\ IF \E i \in At : TimeCaptureAt(Buffer, i)
             THEN \E i \in At : /\ TimeCaptureAt(Buffer, i)
                                /\ data.time = TimeText(Buffer[i])
             ELSE data.time = "20:00"

\* the name alone was said: the other three fields are their defaults
C12_Witness ==
  /\ Extracted
  /\ HasMarker(probe.responseText)
  /\ Buffer = <<"me", "llamo", "Maria">>
  /\ probe.result.data =
       [name |-> "Maria", people |-> 2, date |-> "hoy", time |-> "20:00",
        phone |-> "No proporcionado", notes |-> <<"me", "llamo", "Maria">>]

(***************************************************************************)
(* C13: for a reply with the marker and user turns that say the name       *)
(* Maria, 4 people, tomorrow and 9 in the evening, the data are name       *)
(* Maria, people 4, date tomorrow and time 21:00.                          *)
(***************************************************************************)
C13_NinePmIsTwentyOne ==
  (/\ Extracted
   /\ HasMarker(probe.responseText)
   /\ includes(Buffer, <<"me", "llamo", "Maria">>)
   /\ includes(Buffer, <<"4", "personas">>)
   /\ includes(Buffer, <<"manana">>)
   /\ includes(Buffer, <<"a", "las", "9", "de", "la", "noche">>))
  => /\ probe.result.data.name = "Maria"
     /\ probe.result.data.people = 4
     /\ probe.result.data.date = "manana"
     /\ probe.result.data.time = "21:00"

(***************************************************************************)
(* C14: a call-start event creates the session of its callId, with the     *)
(* businessId of the event or 'default', and is answered with the          *)
(* PlayAndRecord of the welcome audio (10 s, 3 s of silence, key '#', the  *)
(* process-response callback); when it has been answered the store has     *)
(* the session, so that the next recording event of the callId finds it.   *)
(***************************************************************************)
C14_CallStartAnswered ==
  (Returned /\ last.kind = "webhook")
  => /\ last.answer = PlayAndRecord(welcomeMessage, 10, 3, "#")
     /\ HasSession(last.callId)
     /\ SessionOf(last.callId).businessId \in
          {BusinessIdOf(businessId) : businessId \in BodyBusinessIds}
     /\ SessionOf(last.callId).messages = <<>>

\* is s a prefix of t
IsPrefix(s, t) == Len(s) <= Len(t) /\ SubSeq(t, 1, Len(s)) = s

(***************************************************************************)
(* C15: the history is append-only.  In every step, the messages of a      *)
(* callId that has a session before and after the step are extended: the   *)
(* messages before are a prefix of the messages after.                     *)
(***************************************************************************)
C15_AppendOnly ==
  [][\A c \in Keys :
       (HasSession(c) /\ activeConversations'[c] # NoObj)
       => IsPrefix(SessionOf(c).messages,
                   heap'[activeConversations'[c]].messages)]_vars

(***************************************************************************)
(* C16: identifiers synthesized for call-start events without one are      *)
(* unique per call: the identifier given to such an event never names a    *)
(* session that is in the store, so the event never maps onto or replaces  *)
(* the session of an earlier call, also within one clock tick.             *)
(***************************************************************************)
C16_SynthesizedIdsUnique ==
  [][\A h \in Handlers :
       (/\ ~InFlight(h)
        /\ handler'[h].kind = "webhook"
        /\ handler'[h].callId \in SynthIds)
       => ~HasSession(handler'[h].callId)]_vars

(***************************************************************************)
(* C17: under every provider, parsing a call-start body that has no call   *)
(* identifier field yields an event whose callId is defined and non-empty: *)
(* the clock reading as a string.                                          *)
(***************************************************************************)
HasNoCallId(body) ==
  /\ body.CallUUID = Undefined
  /\ body.call_id = Undefined
  /\ body.callId = Undefined
  /\ body.CallSid = Undefined

C17_MissingCallIdSynthesized ==
  (/\ probe.fn = "parseIncomingCall"
   /\ probe.result # NotParsed
   /\ HasNoCallId(probe.body))
  => /\ probe.result.callId # Undefined
     /\ probe.result.callId = DateNowString(probe.now)

(***************************************************************************)
(* C20: whatever provider the process is configured with, every voice      *)
(* action a handler answers with is sent as generateVoiceResponse renders  *)
(* it for that provider, and every PlayAndRecord carries the callback of   *)
(* the next turn.  (No handler reads the configuration, so the behaviours  *)
(* are the same under every provider.)                                     *)
(***************************************************************************)
C20_RenderedForProvider ==
  \A provider \in Providers :
     (Returned /\ IsVoiceAction(last.answer))
     => /\ Json(last.answer) =
             generateVoiceResponse(provider, last.answer.action,
                                   ParamsOf(last.answer))
        /\ last.answer.action = "play_and_record" =>
             last.answer.next_webhook = "process-response"

(***************************************************************************)
(* C18: every session is removed from the store sooner or later, by a      *)
(* farewell turn or, when the call is abandoned, by an inactivity bound.   *)
(* (A behaviour that uses up the events of the model is let through: the   *)
(* session has to go while further events could still be delivered.)       *)
(***************************************************************************)
C18_SessionsEventuallyRemoved ==
  \A c \in CallIds : HasSession(c) ~> (~HasSession(c) \/ nreq = MaxReq)

(***************************************************************************)
(* C19: the handler of every recording event ends sooner or later, also    *)
(* when a gateway never answers, because every gateway call is bounded by  *)
(* a timeout.                                                              *)
(***************************************************************************)
C19_RecordingEventAnswered ==
  \A h \in Handlers :
     (InFlight(h) /\ handler[h].kind = "process") ~> ~InFlight(h)

(***************************************************************************)
(* C21: generateVoiceResponse renders each of its three actions in the     *)
(* shape of the provider format, and refuses every other action name.      *)
(***************************************************************************)
Rendered ==
  /\ probe.fn = "generateVoiceResponse"
  /\ probe.result # NotRendered

\* the positions of a token in a markup
PositionsOf(markup, token) == {i \in 1..Len(markup) : markup[i] = token}

\* token a stands somewhere before token b
Precedes(markup, a, b) ==
  \E i \in PositionsOf(markup, a) : \E j \in PositionsOf(markup, b) : i < j

\* the value written after the name of an attribute
AttributeOf(markup, name) ==
  markup[FirstMatch(PositionsOf(markup, name)) + 1]

\* the shape of the rendering of the three actions in each format
ShapeOfFormat ==
  LET format == webhookFormat(probe.provider)
      action == probe.action
      params == probe.params
      result == probe.result
  IN CASE format = "plivo" ->
            /\ DOMAIN result = {"message", "content"}
            /\ result.message = "ok"
            /\ action = "play_and_record" =>
                 /\ Precedes(result.content, "<Play>", "<Record")
                 /\ PositionsOf(result.content, "<Hangup/>") = {}
                 /\ AttributeOf(result.content, "<Play>") = params.audio_url
                 /\ AttributeOf(result.content, "action=") = params.next_webhook
            /\ action = "play_and_hangup" =>
                 /\ Precedes(result.content, "<Play>", "<Hangup/>")
                 /\ PositionsOf(result.content, "<Record") = {}
                 /\ AttributeOf(result.content, "<Play>") = params.audio_url
            /\ action = "say" =>
                 /\ PositionsOf(result.content, "<Speak") # {}
                 /\ PositionsOf(result.content, "<Play>") = {}
                 /\ AttributeOf(result.content, ">") = params.text
       [] format = "voximplant" ->
            /\ DOMAIN result = {"commands"}
            /\ action = "play_and_record" =>
                 /\ Len(result.commands) = 2
                 /\ result.commands[1] =
                      [command |-> "playSound", url |-> params.audio_url]
                 /\ result.commands[2].command = "record"
                 /\ result.commands[2].webhook = params.next_webhook
                 /\ params.record_options.max_duration # 0 =>
                      result.commands[2].maxDuration =
                        1000 * params.record_options.max_duration
                 /\ params.record_options.silence_timeout # 0 =>
                      result.commands[2].silenceTimeout =
                        1000 * params.record_options.silence_timeout
            /\ action = "play_and_hangup" =>
                 result.commands =
                   <<[command |-> "playSound", url |-> params.audio_url],
                     [command |-> "hangup"]>>
            /\ action = "say" =>
                 /\ Len(result.commands) = 1
                 /\ result.commands[1].command = "say"
                 /\ result.commands[1].text = params.text
       [] OTHER ->
            /\ result.action = action
            /\ action \in {"play_and_record", "play_and_hangup"} =>
                 result.audio_url = params.audio_url
            /\ action = "play_and_record" =>
                 result.next_webhook = params.next_webhook
            /\ action = "say" => result.text = params.text

\* the number a markup attribute spells
NumberOf(text) == CHOOSE n \in 0..60 : ToString(n) = text

\* the maximum duration and the silence timeout of a rendered record, in
\* seconds; 0 when the rendering names none
RecordSeconds(format, result) ==
  CASE format = "plivo" ->
         <<NumberOf(AttributeOf(result.content, "maxLength=")),
           NumberOf(AttributeOf(result.content, "timeout="))>>
    [] format = "voximplant" ->
         <<result.commands[2].maxDuration \div 1000,
           result.commands[2].silenceTimeout \div 1000>>
    [] OTHER ->
         <<result.record_options.max_duration,
           result.record_options.silence_timeout>>

\* a record option that is missing is rendered as 10 s and 3 s
FallsBack(format) ==
  LET options == probe.params.record_options
      seconds == RecordSeconds(format, probe.result)
  IN /\ options.max_duration = 0 => seconds[1] = 10
     /\ options.silence_timeout = 0 => seconds[2] = 3

\* C21 as stated: the shapes, the fallback of missing record options in
\* every format, and the error for every other action name
C21_FormatExact ==
  Rendered =>
    IF probe.action \in {"play_and_record", "play_and_hangup", "say"}
      THEN /\ ShapeOfFormat
           /\ probe.action = "play_and_record" =>
                FallsBack(webhookFormat(probe.provider))
      ELSE probe.result = Unsupported(probe.action)

\* C21, amended: the markup and the command list fall back to 10 s and 3 s;
\* the flat object carries the record options as they were given, missing
\* ones still missing
C21_FormatExactFallbackWhereRendered ==
  Rendered =>
    IF probe.action \in {"play_and_record", "play_and_hangup", "say"}
      THEN /\ ShapeOfFormat
           /\ probe.action = "play_and_record" =>
                IF webhookFormat(probe.provider) \in {"plivo", "voximplant"}
                  THEN FallsBack(webhookFormat(probe.provider))
                  ELSE probe.result.record_options =
                         probe.params.record_options
      ELSE probe.result = Unsupported(probe.action)

\* a record with a missing maximum duration, rendered as a command list
C21_Witness ==
  /\ Rendered
  /\ probe.provider = "voximplant"
  /\ probe.action = "play_and_record"
  /\ probe.params.record_options.max_duration = 0
  /\ probe.params.record_options.silence_timeout = 4
  /\ probe.result.commands[2].maxDuration = 10000
  /\ probe.result.commands[2].silenceTimeout = 4000

(***************************************************************************)
(* C22: a turn carries an action only if it is an assistant turn whose     *)
(* handler went on to call makeReservation; user turns and the assistant   *)
(* turns of replies without side effect carry none.                        *)
(***************************************************************************)
\* the turn has an action: the field is there and is not null
Carries(turn) == turn.action.type \notin {"undefined", "null"}

\* the turns the step appends to the messages of session object o
Appended(o) ==
  IF heap[o] # Free /\ heap'[o] # Free
       /\ Len(heap'[o].messages) > Len(heap[o].messages)
    THEN {heap'[o].messages[i] :
            i \in (Len(heap[o].messages) + 1)..Len(heap'[o].messages)}
    ELSE {}

C22_ActionOnlyWithSideEffect ==
  [][\A h \in Handlers : \A o \in ObjIds : \A turn \in Appended(o) :
       (Steps(h) /\ Carries(turn))
       => /\ turn.role = "assistant"
          /\ handler'[h].pc = "reserve"]_vars

(***************************************************************************)
(* C22 as amended: only assistant turns carry an action; the action is     *)
(* make_reservation exactly when the handler goes on to call               *)
(* makeReservation, and it is otherwise the data-less check_availability   *)
(* of a reply that says 'consultar disponibilidad', which is stored on the *)
(* turn without any gateway being called for it.                           *)
(***************************************************************************)
C22_ActionOnlyOnAssistantTurns ==
  [][\A h \in Handlers : \A o \in ObjIds : \A turn \in Appended(o) :
       Steps(h)
       => /\ Carries(turn) => turn.role = "assistant"
          /\ turn.role = "assistant" =>
               /\ turn.action.type \in
                    {"null", "make_reservation", "check_availability"}
               /\ turn.action.type = "make_reservation" <=>
                    handler'[h].pc = "reserve"
               /\ turn.action.type = "check_availability" <=>
                    (/\ ~HasMarker(turn.content)
                     /\ includes(toLowerCase(turn.content),
                                 <<"consultar", "disponibilidad">>))]_vars

\* a session whose assistant turn carries check_availability, left by a
\* handler that never called makeReservation
C22_Witness ==
  /\ Returned
  /\ last.kind = "process"
  /\ last.reservation = "none"
  /\ HasSession(last.callId)
  /\ \E i \in 1..Len(SessionOf(last.callId).messages) :
        /\ SessionOf(last.callId).messages[i].role = "assistant"
        /\ SessionOf(last.callId).messages[i].action.type = "check_availability"

(***************************************************************************)
(* C23: the handler of a recording event calls makeReservation at most     *)
(* once, and it calls it exactly when the reply it generated contains the  *)
(* reservation marker; the handlers of an empty transcript and of an       *)
(* unknown callId never call it.                                           *)
(***************************************************************************)
C23_ReservationIffMarker ==
  [][\A h \in Handlers :
       (Steps(h) /\ handler[h].kind = "process")
       => /\ handler'[h].pc = "reserve" =>
               /\ handler[h].pc = "llm"
               /\ handler[h].reservation = "none"
               /\ HasMarker(handler'[h].response.message)
               /\ KnownRecording(handler'[h])
               /\ ~IsEmptyText(handler'[h].userText)
          /\ (handler[h].pc = "llm" /\ HasMarker(After(h).response.message))
               => handler'[h].pc = "reserve"
          /\ After(h).reservation # handler[h].reservation =>
               /\ handler[h].pc = "reserve"
               /\ handler[h].reservation = "none"
          /\ Finishes(h) =>
               /\ last'.reservation # "none" <=>
                    HasMarker(last'.response.message)
               /\ (IsEmptyText(last'.userText) \/ ~KnownRecording(last'))
                    => last'.reservation = "none"]_vars

\* a handler has answered after its one call of makeReservation, made for a
\* reply with the marker
C23_Witness ==
  /\ Returned
  /\ KnownRecording(last)
  /\ HasMarker(last.response.message)
  /\ last.reservation = "failed"
  /\ IsVoiceAction(last.answer)

(***************************************************************************)
(* C24: the order of the steps of a recording event with a transcript.     *)
(* When the handler calls processConversation, the messages it passes end  *)
(* with the user turn it has just pushed; when it calls makeReservation,   *)
(* they end with the assistant turn of the reply; and when it calls        *)
(* generateSpeech for the reply, both turns are there in that order and    *)
(* the reservation, if the reply asked for one, has been attempted.        *)
(***************************************************************************)
LastOf(messages) == messages[Len(messages)]

C24_StepsInOrder ==
  [][\A h \in Handlers :
       (Steps(h) /\ handler[h].kind = "process" /\ ~Finishes(h))
       => LET messages == heap'[handler'[h].conversation].messages
              user == UserTurn(handler'[h].userText)
              assistant == AssistantTurn(handler'[h].response)
          IN /\ handler'[h].pc = "llm" =>
                  /\ messages # <<>>
                  /\ LastOf(messages) = user
             /\ handler'[h].pc = "reserve" =>
                  /\ messages # <<>>
                  /\ LastOf(messages) = assistant
             /\ handler'[h].pc = "tts" =>
                  /\ \E i, j \in 1..Len(messages) :
                        i < j /\ messages[i] = user /\ messages[j] = assistant
                  /\ HasMarker(handler'[h].response.message) =>
                       handler'[h].reservation # "none"]_vars

(***************************************************************************)
(* C25: a recording event for a known callId whose recording could not be  *)
(* downloaded or transcribed, or that names no recording, is answered with *)
(* the retry PlayAndRecord whenever it is answered with a voice action,    *)
(* never with a hangup.                                                    *)
(***************************************************************************)
\* the handler got no transcript: it was given no recording URL, or the
\* download or the transcription failed (the temporary file is unlinked
\* only when transcribeAudio has returned)
NoTranscript(r) ==
  /\ KnownRecording(r)
  /\ r.pc # "transcribing"
  /\ r.tempFile # "deleted"

C25_FailureRetries ==
  (Returned /\ NoTranscript(last) /\ IsVoiceAction(last.answer))
  => /\ last.answer = PlayAndRecord(retryMessage, 10, 3, NoKey)
     /\ last.answer.action # "play_and_hangup"

(***************************************************************************)
(* C25 as amended: such an event goes the way of an empty transcript.  Its *)
(* handler has '' as the text and goes on to synthesize the retry prompt,  *)
(* no step of it changes the store or the messages of any session, and it  *)
(* ends with the retry PlayAndRecord when the retry prompt was             *)
(* synthesized; when that synthesis fails the catch block answers the      *)
(* generic-error PlayAndHangup, or nothing when its synthesis fails too.   *)
(***************************************************************************)
C25_FailureIsEmptyTranscript ==
  [][\A h \in Handlers :
       (Steps(h) /\ NoTranscript(After(h)))
       => /\ After(h).userText = <<>>
          /\ handler[h].pc = "transcribing" => handler'[h].pc = "retry_tts"
          /\ activeConversations' = activeConversations
          /\ \A o \in ObjIds : heap'[o] \in {heap[o], Free}
          /\ Finishes(h) =>
               /\ last'.answer \in
                    {PlayAndRecord(retryMessage, 10, 3, NoKey),
                     PlayAndHangup(errorMessage), Unhandled}
               /\ handler[h].pc = "retry_tts" <=>
                    last'.answer = PlayAndRecord(retryMessage, 10, 3, NoKey)]_vars

\* a recording that could not be transcribed was answered with the retry
\* prompt, and the session is still there
C25_Witness ==
  /\ Returned
  /\ NoTranscript(last)
  /\ last.tempFile = "written"
  /\ last.answer = PlayAndRecord(retryMessage, 10, 3, NoKey)
  /\ HasSession(last.callId)

(***************************************************************************)
(* C26: makeReservation sends nothing when a required field is missing;    *)
(* otherwise it first searches a table, and it sends the request that      *)
(* creates the reservation only after the search has returned a table.  A  *)
(* search that returns no table makes it fail with the no-availability     *)
(* error, without a create request.                                        *)
(***************************************************************************)
Urls(requests) == [i \in 1..Len(requests) |-> requests[i].url]

C26_SearchThenCreate ==
  (probe.fn = "makeReservation" /\ probe.pc # "called")
  => /\ MissingField(probe.data) # "none" =>
          /\ probe.pc = "threw"
          /\ probe.requests = <<>>
     /\ MissingField(probe.data) = "none" =>
          /\ Urls(probe.requests) \in
               {<<"/buscar-mesa">>, <<"/buscar-mesa", "/crear-reserva">>}
          /\ probe.requests[1].body.personas = probe.data.people
     /\ Len(probe.requests) = 2 =>
          /\ probe.mesaResponse \notin {NotSearched, NullResponse}
          /\ \/ probe.mesaResponse.mesaId # Undefined
             \/ probe.mesaResponse.mesa # Undefined
          /\ probe.requests[2].body.mesaId \in {"m7", "mesa 7"}
     /\ (/\ probe.mesaResponse # NotSearched
         /\ \/ probe.mesaResponse = NullResponse
            \/ /\ probe.mesaResponse.mesaId = Undefined
               /\ probe.mesaResponse.mesa = Undefined)
          => /\ probe.pc = "threw"
             /\ probe.error[2] = "No hay mesas disponibles"
             /\ Urls(probe.requests) = <<"/buscar-mesa">>
     /\ probe.pc = "returned" => Len(probe.requests) = 2

\* the reservation was created after the search had returned a table
C26_Witness ==
  /\ probe.fn = "makeReservation"
  /\ probe.pc = "returned"
  /\ Urls(probe.requests) = <<"/buscar-mesa", "/crear-reserva">>
  /\ probe.mesaResponse.mesaId = "m7"

(***************************************************************************)
(* C27: whenever the recording event of a callId that had a session is     *)
(* answered with PlayAndHangup, after a farewell reply or by the error     *)
(* handler, the session of that callId is no longer in the store.          *)
(***************************************************************************)
C27_HangupRemovesSession ==
  (/\ Returned
   /\ KnownRecording(last)
   /\ last.answer.action = "play_and_hangup")
  => ~HasSession(last.callId)

(***************************************************************************)
(* C28: once a recording event has ended the call of a callId (its session *)
(* removed, the hangup answered), no handler of another recording event of *)
(* that callId that is still in flight appends a turn to the removed       *)
(* session or answers PlayAndRecord.                                       *)
(***************************************************************************)
\* the handler in slot h holds the session of a callId that has none in the
\* store any more
HoldsRemovedSession(h) ==
  /\ InFlight(h)
  /\ handler[h].kind = "process"
  /\ handler[h].conversation # NoObj
  /\ ~HasSession(handler[h].callId)

C28_NothingAfterTermination ==
  [][\A h \in Handlers :
       (Steps(h) /\ HoldsRemovedSession(h))
       => /\ heap'[handler[h].conversation] \in
               {heap[handler[h].conversation], Free}
          /\ Finishes(h) => last'.answer.action # "play_and_record"]_vars

(***************************************************************************)
(* C29: a call whose call-start event named no call can be continued.  The *)
(* provider of such a call has no identifier of its own to send, and the   *)
(* PlayAndRecord it was answered with names none either (next_webhook is   *)
(* the bare address of process-response), so the recording event it sends  *)
(* next names no call; that event is matched to the session created for    *)
(* the call and is not rejected as unknown.                                *)
(***************************************************************************)
\* the call-start event answered last named no call, was given a
\* synthesized identifier, and was answered with PlayAndRecord
AnonymousCallAwaitsRecording ==
  /\ Returned
  /\ last.kind = "webhook"
  /\ last.callId \in SynthIds
  /\ last.answer.action = "play_and_record"
  /\ last.answer.next_webhook = "process-response"
  /\ HasSession(last.callId)

C29_AnonymousCallContinues ==
  [][\A h \in Handlers :
       (/\ AnonymousCallAwaitsRecording
        /\ ~InFlight(h)
        /\ handler'[h].kind = "process"
        /\ handler'[h].callId = Undefined)
       => /\ handler'[h].error # "Conversacion no encontrada"
          /\ handler'[h].conversation = activeConversations[last.callId]]_vars

(***************************************************************************)
(* C30: the temporary file a handler writes the downloaded recording to is *)
(* deleted by the time the handler answers, whichever way the handler      *)
(* ends.                                                                   *)
(***************************************************************************)
C30_TempFileDeleted ==
  (Returned /\ last.kind = "process") => last.tempFile # "written"

====
